---- MODULE Spec2Model ----
(***************************************************************************)
(* The reconciliation core of historical/common/dynamodb.py: a DynamoDB    *)
(* stream record (INSERT / MODIFY / REMOVE) of the "current" table is      *)
(* turned into zero or one save on the durable table.                      *)
(*                                                                         *)
(* Wire values are DynamoDB-typed, {"S": ..}, {"N": ..}, {"NULL": true},   *)
(* {"M": {..}}; they are one-field records named by their type tag.  The   *)
(* Python values they decode to are one-field records named by their       *)
(* Python type: [str |-> ..], [dec |-> <<whole, frac>>], [int |-> ..],     *)
(* [float |-> <<whole, frac>>], [none |-> TRUE], [map |-> f].  A dict is a *)
(* function whose domain is a set of strings.  An eventTime string is      *)
(* stood for by a natural number, ordered as the ISO time strings are.     *)
(***************************************************************************)
EXTENDS Naturals, Sequences, FiniteSets, TLC

VARIABLES
  store,      \* the durable table: a set of items, at most one per (arn, eventTime)
  clock,      \* the next timestamp the durable model assigns by default
  nEvents,    \* how many stream records have been handed to the core
  last,       \* what the last whole call of process_dynamodb_record did
  warned,     \* SpecOrder: whether some call has logged a warning
  delivered,  \* SpecOrder: the stream records handed to the core so far
  workers,    \* SpecConc: each concurrent invocation's position and locals
  batch       \* SpecFaults: the records of the batch handled so far, with how each ended

vars == <<store, clock, nEvents, last, warned, delivered, workers, batch>>

----------------------------------------------------------------------------
(* Bounds of the model *)

MaxTime == 3

MaxEvents == 3

ARNS == {"R1", "R2"}

Times == 1..MaxTime

----------------------------------------------------------------------------
(* Python dicts *)

EmptyDict == [k \in {} |-> TRUE]

DictDel(d, key) == [k \in DOMAIN d \ {key} |-> d[k]]

DictSet(d, key, v) == [k \in DOMAIN d \cup {key} |-> IF k = key THEN v ELSE d[k]]

TagOf(v) == CHOOSE t \in DOMAIN v : TRUE

----------------------------------------------------------------------------
(* boto3 TypeDeserializer, as the module-level instance deser is used *)

SupportedTags == {"S", "N", "NULL", "M"}

RECURSIVE Decodable(_)
Decodable(v) ==
  /\ TagOf(v) \in SupportedTags
  /\ TagOf(v) = "M" => \A k \in DOMAIN v.M : Decodable(v.M[k])

RECURSIVE deserialize(_)
deserialize(v) ==
  CASE TagOf(v) = "S" -> [str |-> v.S]
    [] TagOf(v) = "N" -> [dec |-> v.N]
    [] TagOf(v) = "NULL" -> [none |-> TRUE]
    [] TagOf(v) = "M" -> [map |-> [k \in DOMAIN v.M |-> deserialize(v.M[k])]]

----------------------------------------------------------------------------
(* The helpers of historical/common/dynamodb.py *)

OK(v) == [err |-> "none", val |-> v]

Raise(e) == [err |-> e, val |-> EmptyDict]

\* Mutant: the ttl field is required but left in place.
remove_current_specific_fields_keeps_ttl(obj) ==
  IF "ttl" \in DOMAIN obj THEN OK(obj) ELSE Raise("KeyError")

remove_current_specific_fields(obj) ==
  IF "ttl" \in DOMAIN obj THEN OK(DictDel(obj, "ttl")) ELSE Raise("KeyError")

RECURSIVE replace_decimals(_)
replace_decimals(obj) ==
  CASE TagOf(obj) = "map" ->
         [map |-> [k \in DOMAIN obj.map |-> replace_decimals(obj.map[k])]]
    [] TagOf(obj) = "dec" ->
         IF obj.dec[2] = 0 THEN [int |-> obj.dec[1]] ELSE [float |-> obj.dec]
    [] OTHER -> obj

RECURSIVE replace_nones(_)
replace_nones(obj) ==
  CASE TagOf(obj) = "map" ->
         [map |-> [k \in DOMAIN obj.map |-> replace_nones(obj.map[k])]]
    [] TagOf(obj) = "none" -> [map |-> EmptyDict]
    [] OTHER -> obj

----------------------------------------------------------------------------
(* The durable table, as the core uses it through durable_model *)

\* A durable item is keyed by (arn, eventTime): hash key and range key.
KeyOf(item) == <<item.arn.str, item.eventTime.str>>

\* durable_model(**data): an eventTime left out of data takes the model's
\* default, the time of the call.
durable_model(data, now) ==
  IF "eventTime" \in DOMAIN data THEN data ELSE DictSet(data, "eventTime", [str |-> now])

\* <instance>.save(): an unconditional put, which replaces the item of the same key.
save(st, item) == {r \in st : KeyOf(r) # KeyOf(item)} \cup {item}

\* Mutant: the hash key is left out of the key condition.
query_any_resource(st, arn, event_time) ==
  LET matching == {r \in st : r.eventTime.str <= event_time.str}
  IN  IF matching = {} THEN <<>>
      ELSE <<CHOOSE r \in matching :
               \A q \in matching : q.eventTime.str <= r.eventTime.str>>

\* Mutant: scan_index_forward=True, the oldest matching item comes first.
query_oldest_first(st, arn, event_time) ==
  LET matching == {r \in st : r.arn.str = arn /\ r.eventTime.str <= event_time.str}
  IN  IF matching = {} THEN <<>>
      ELSE <<CHOOSE r \in matching :
               \A q \in matching : r.eventTime.str <= q.eventTime.str>>

\* durable_model.query(arn, eventTime__le=event_time, scan_index_forward=False, limit=1)
query(st, arn, event_time) ==
  LET matching == {r \in st : r.arn.str = arn /\ r.eventTime.str <= event_time.str}
  IN  IF matching = {} THEN <<>>
      ELSE <<CHOOSE r \in matching :
               \A q \in matching : q.eventTime.str <= r.eventTime.str>>

\* The paths the injected diff policy disregards.
EphemeralPaths == {"observed"}

\* diff_func(latest_revision, current_revision): TRUE when the two
\* configurations differ outside the ephemeral paths.
diff_func(latest_revision, current_revision) ==
  LET a == latest_revision.configuration.map
      b == current_revision.configuration.map
      ka == DOMAIN a \ EphemeralPaths
      kb == DOMAIN b \ EphemeralPaths
  IN  ka # kb \/ \E k \in ka : a[k] # b[k]

----------------------------------------------------------------------------
(* The engine.  A call's result is what it did: err, the items it saved,   *)
(* in order, the warnings it logged, how often it queried the durable      *)
(* table and called diff_func, and the items its query returned.           *)

Outcome(err, saves, warnings, queries, diffs, items) ==
  [err |-> err, saves |-> saves, warnings |-> warnings, queries |-> queries,
   diffs |-> diffs, items |-> items]

\* Mutant: the result of diff_func is not looked at.
modify_record_always_saves(st, current_revision, arn, event_time) ==
  LET items == query(st, arn, event_time)
  IN  IF items # <<>>
      THEN Outcome("none", <<current_revision>>, 0, 1, 1, items)
      ELSE Outcome("none", <<>>, 1, 1, 0, items)

\* Mutant: a MODIFY without a prior revision is saved as a first revision.
modify_record_saves_first(st, current_revision, arn, event_time) ==
  LET items == query(st, arn, event_time)
  IN  IF items # <<>>
      THEN IF diff_func(items[1], current_revision)
           THEN Outcome("none", <<current_revision>>, 0, 1, 1, items)
           ELSE Outcome("none", <<>>, 0, 1, 1, items)
      ELSE Outcome("none", <<current_revision>>, 1, 1, 0, items)

modify_record(st, current_revision, arn, event_time) ==
  LET items == query(st, arn, event_time)
  IN  IF items # <<>>
      THEN IF diff_func(items[1], current_revision)
           THEN Outcome("none", <<current_revision>>, 0, 1, 1, items)
           ELSE Outcome("none", <<>>, 0, 1, 1, items)
      ELSE Outcome("none", <<>>, 1, 1, 0, items)

\* Mutant: the eventTime of the old image is kept in the deletion marker.
delete_record_keeps_eventTime(old_image, now) ==
  IF \E item \in DOMAIN old_image : ~Decodable(old_image[item])
  THEN Raise("TypeError")
  ELSE LET data == [item \in DOMAIN old_image |-> deserialize(old_image[item])]
           marked == DictSet(data, "configuration", [map |-> EmptyDict])
       IN  IF "eventTime" \in DOMAIN marked
           THEN OK(durable_model(marked, now))
           ELSE Raise("KeyError")

\* Mutant: the configuration of the old image is kept in the deletion marker.
delete_record_keeps_configuration(old_image, now) ==
  IF \E item \in DOMAIN old_image : ~Decodable(old_image[item])
  THEN Raise("TypeError")
  ELSE LET data == [item \in DOMAIN old_image |-> deserialize(old_image[item])]
       IN  IF "eventTime" \in DOMAIN data
           THEN OK(durable_model(DictDel(data, "eventTime"), now))
           ELSE Raise("KeyError")

\* delete_record up to its save: the item it builds, or the error it raises.
delete_record(old_image, now) ==
  IF \E item \in DOMAIN old_image : ~Decodable(old_image[item])
  THEN Raise("TypeError")
  ELSE LET data == [item \in DOMAIN old_image |-> deserialize(old_image[item])]
           marked == DictSet(data, "configuration", [map |-> EmptyDict])
       IN  IF "eventTime" \in DOMAIN marked
           THEN OK(durable_model(DictDel(marked, "eventTime"), now))
           ELSE Raise("KeyError")

\* Mutant: the eventTime of the new image is dropped, as delete_record drops
\* that of the old image, and the durable model gives its own.
current_revision_of_own_timestamp(new_image, now) ==
  LET new == remove_current_specific_fields(new_image)
  IN  IF new.err # "none" THEN Raise(new.err)
      ELSE IF \E item \in DOMAIN new.val : ~Decodable(new.val[item])
      THEN Raise("TypeError")
      ELSE OK(durable_model(
                [item \in DOMAIN new.val \ {"eventTime"} |->
                   replace_decimals(deserialize(new.val[item]))],
                now))

\* Lines 91-98: the current revision built from NewImage, or the error raised.
current_revision_of(new_image, now) ==
  LET new == remove_current_specific_fields(new_image)
  IN  IF new.err # "none" THEN Raise(new.err)
      ELSE IF \E item \in DOMAIN new.val : ~Decodable(new.val[item])
      THEN Raise("TypeError")
      ELSE OK(durable_model(
                [item \in DOMAIN new.val |-> replace_decimals(deserialize(new.val[item]))],
                now))

\* Mutant: the principal of the service is not checked.
is_ttl_delete_any_service(record) ==
  /\ DOMAIN record.userIdentity # {}
  /\ record.userIdentity.type = "Service"

\* Lines 106-110: only deletes made by the DynamoDB TTL service are tracked.
is_ttl_delete(record) ==
  /\ DOMAIN record.userIdentity # {}
  /\ record.userIdentity.type = "Service"
  /\ record.userIdentity.principalId = "dynamodb.amazonaws.com"

\* The call up to its first use of the durable table: what it is about to do.
\*   op = "save": save item;  op = "modify": modify_record(item, arn, event_time);
\*   op = "none": return;     err # "none": the exception that ends the call.
Plan(err, op, item) == [err |-> err, op |-> op, item |-> item]

plan_of(record, now) ==
  IF record.eventName \in {"INSERT", "MODIFY"}
  THEN LET cur == current_revision_of(record.image, now)
       IN  IF cur.err # "none" THEN Plan(cur.err, "none", EmptyDict)
           ELSE IF record.eventName = "INSERT" THEN Plan("none", "save", cur.val)
           ELSE IF "eventTime" \in DOMAIN record.image
                THEN Plan("none", "modify", cur.val)
                ELSE Plan("KeyError", "none", EmptyDict)
  ELSE IF record.eventName = "REMOVE" /\ is_ttl_delete(record)
  THEN LET old == remove_current_specific_fields(record.image)
       IN  IF old.err # "none" THEN Plan(old.err, "none", EmptyDict)
           ELSE LET del == delete_record(old.val, now)
                IN  IF del.err # "none" THEN Plan(del.err, "none", EmptyDict)
                    ELSE Plan("none", "save", del.val)
  ELSE Plan("none", "none", EmptyDict)

\* Mutant: delete_record saves the deletion marker before it looks for the
\* eventTime of the old image, so the KeyError comes after the write.
process_dynamodb_record_saves_before_check(record, st, now) ==
  LET plan == plan_of(record, now)
      old == remove_current_specific_fields(record.image)
  IN  CASE plan.err = "KeyError" /\ record.eventName = "REMOVE" /\ old.err = "none" ->
             Outcome("KeyError",
                     <<durable_model(
                         DictSet([item \in DOMAIN old.val |-> deserialize(old.val[item])],
                                 "configuration", [map |-> EmptyDict]),
                         now)>>,
                     0, 0, 0, <<>>)
        [] plan.err # "none" /\ ~(plan.err = "KeyError" /\ record.eventName = "REMOVE" /\ old.err = "none") ->
             Outcome(plan.err, <<>>, 0, 0, 0, <<>>)
        [] plan.err = "none" /\ plan.op = "save" -> Outcome("none", <<plan.item>>, 0, 0, 0, <<>>)
        [] plan.err = "none" /\ plan.op = "modify" ->
             modify_record(st, plan.item, record.Keys, plan.item.eventTime)
        [] OTHER -> Outcome("none", <<>>, 0, 0, 0, <<>>)

process_dynamodb_record(record, st, now) ==
  LET plan == plan_of(record, now)
  IN  CASE plan.err # "none" -> Outcome(plan.err, <<>>, 0, 0, 0, <<>>)
        [] plan.err = "none" /\ plan.op = "save" ->
             Outcome("none", <<plan.item>>, 0, 0, 0, <<>>)
        [] plan.err = "none" /\ plan.op = "modify" ->
             modify_record(st, plan.item, record.Keys, plan.item.eventTime)
        [] OTHER -> Outcome("none", <<>>, 0, 0, 0, <<>>)

----------------------------------------------------------------------------
(* Stream records *)

\* A configuration: <<owner, observed>>; observed is the ephemeral field.
Configs == {<<"a", 1>>, <<"a", 2>>, <<"b", 1>>}

Image(arn, t, c) ==
  [arn |-> [S |-> arn],
   eventTime |-> [S |-> t],
   ttl |-> [N |-> <<998 + c[2], 0>>],
   configuration |-> [M |-> [owner |-> [S |-> c[1]], observed |-> [N |-> <<c[2], 0>>]]]]

WellFormedImages == {Image(a, t, c) : a \in ARNS, t \in Times, c \in Configs}

NoTtlImages == {DictDel(Image(a, 1, <<"a", 1>>), "ttl") : a \in ARNS}

RemovedImages == {Image(a, t, <<"a", 1>>) : a \in ARNS, t \in Times}

TtlService == [type |-> "Service", principalId |-> "dynamodb.amazonaws.com"]

Identities ==
  {EmptyDict, TtlService,
   [type |-> "Service", principalId |-> "lambda.amazonaws.com"],
   [type |-> "IAMUser", principalId |-> "dynamodb.amazonaws.com"]}

Record(name, image, identity) ==
  [eventName |-> name, Keys |-> image.arn.S, image |-> image, userIdentity |-> identity]

Events ==
  {Record(n, i, EmptyDict) : n \in {"INSERT", "MODIFY"}, i \in WellFormedImages \cup NoTtlImages}
  \cup {Record("REMOVE", i, u) : i \in RemovedImages \cup NoTtlImages, u \in Identities}

----------------------------------------------------------------------------
(* One whole call of process_dynamodb_record, the calls following each other *)

NoRecord == [eventName |-> "NONE"]

Saved(st, saves) == IF saves = <<>> THEN st ELSE save(st, saves[1])

Tick(now, saves) ==
  IF saves # <<>> /\ saves[1].eventTime.str = now THEN now + 1 ELSE now

\* No call is in progress and none has just ended.
Idle ==
  [event |-> NoRecord, pre |-> {}, err |-> "none", saves |-> <<>>,
   warnings |-> 0, queries |-> 0, diffs |-> 0, items |-> <<>>]

\* SpecConc: the invocations that run side by side, and one that has no record.
Workers == {"w1", "w2"}

Waiting == [pc |-> "idle", event |-> NoRecord, item |-> EmptyDict, items |-> <<>>, seen |-> {}]

Init ==
  /\ store = {}
  /\ clock = MaxTime + 1
  /\ nEvents = 0
  /\ last = Idle
  /\ warned = FALSE
  /\ delivered = {}
  /\ workers = [w \in Workers |-> Waiting]
  /\ batch = <<>>

\* The whole call on record e, from the stream handler's hand-over to its end.
Call(e) ==
  /\ last = Idle
  /\ \A w \in Workers : workers[w] = Waiting
  /\ nEvents < MaxEvents
  /\ LET out == process_dynamodb_record(e, store, clock)
     IN  /\ store' = Saved(store, out.saves)
         /\ clock' = Tick(clock, out.saves)
         /\ last' = [event |-> e, pre |-> store, err |-> out.err, saves |-> out.saves,
                     warnings |-> out.warnings, queries |-> out.queries,
                     diffs |-> out.diffs, items |-> out.items]
  /\ nEvents' = nEvents + 1
  /\ UNCHANGED workers

Process(e) == Call(e) /\ UNCHANGED <<warned, delivered, batch>>

\* The call returns to the stream handler, which takes the next record.
Return ==
  /\ last # Idle
  /\ last' = Idle
  /\ UNCHANGED <<store, clock, nEvents, warned, delivered, workers, batch>>

Next == (\E e \in Events : Process(e)) \/ Return

Spec == Init /\ [][Next]_vars

----------------------------------------------------------------------------
(* The records of one resource, in any order of delivery, one call after   *)
(* the other; what was delivered and whether a warning was logged is kept. *)

OrderEvents ==
  {Record(n, Image("R1", t, c), EmptyDict) : n \in {"INSERT", "MODIFY"}, t \in Times, c \in Configs}

Deliver(e) ==
  /\ Call(e)
  /\ delivered' = delivered \cup {e}
  /\ warned' = (warned \/ last'.warnings > 0)
  /\ UNCHANGED batch

NextOrder == (\E e \in OrderEvents : Deliver(e)) \/ Return

SpecOrder == Init /\ [][NextOrder]_vars

----------------------------------------------------------------------------
(* Concurrent invocations: each runs process_dynamodb_record on its own    *)
(* record; the query and the save on the durable table are separate steps. *)

\* Lines 86-104 up to the call of modify_record, or up to the save of an INSERT.
Receive(w, e) ==
  /\ last = Idle
  /\ workers[w].pc = "idle"
  /\ nEvents < MaxEvents
  /\ LET plan == plan_of(e, clock)
         pc == CASE plan.err = "none" /\ plan.op = "save" -> "save"
                 [] plan.err = "none" /\ plan.op = "modify" -> "query"
                 [] OTHER -> "done"
     IN  workers' = [workers EXCEPT ![w] =
                       [pc |-> pc, event |-> e, item |-> plan.item, items |-> <<>>, seen |-> {}]]
  /\ nEvents' = nEvents + 1
  /\ UNCHANGED <<store, clock, last, warned, delivered, batch>>

\* modify_record, lines 58-63 and 66-67: the query and the decision.
QueryStep(w) ==
  /\ workers[w].pc = "query"
  /\ LET out == modify_record(store, workers[w].item, workers[w].event.Keys,
                              workers[w].item.eventTime)
     IN  workers' = [workers EXCEPT ![w].items = out.items, ![w].seen = store,
                       ![w].pc = IF out.saves # <<>> THEN "save" ELSE "done"]
  /\ UNCHANGED <<store, clock, nEvents, last, warned, delivered, batch>>

\* Mutant: a conditional write, refused when the revision the invocation
\* resolved is no longer the latest one at or before its candidate.
SaveStep_if_latest_unchanged(w) ==
  /\ workers[w].pc = "save"
  /\ workers[w].event.eventName = "MODIFY" =>
       query(store, workers[w].event.Keys, workers[w].item.eventTime) = workers[w].items
  /\ store' = save(store, workers[w].item)
  /\ clock' = Tick(clock, <<workers[w].item>>)
  /\ workers' = [workers EXCEPT ![w].pc = "saved"]
  /\ UNCHANGED <<nEvents, last, warned, delivered, batch>>

\* current_revision.save(), line 64 or line 100.
SaveStep(w) ==
  /\ workers[w].pc = "save"
  /\ store' = save(store, workers[w].item)
  /\ clock' = Tick(clock, <<workers[w].item>>)
  /\ workers' = [workers EXCEPT ![w].pc = "saved"]
  /\ UNCHANGED <<nEvents, last, warned, delivered, batch>>

\* The invocation ends and is ready for another record.
Finish(w) ==
  /\ workers[w].pc \in {"saved", "done"}
  /\ workers' = [workers EXCEPT ![w] = Waiting]
  /\ UNCHANGED <<store, clock, nEvents, last, warned, delivered, batch>>

NextConc ==
  \/ \E w \in Workers, e \in OrderEvents : Receive(w, e)
  \/ \E w \in Workers : QueryStep(w)
  \/ \E w \in Workers : SaveStep(w)
  \/ \E w \in Workers : Finish(w)

SpecConc == Init /\ [][NextConc]_vars

----------------------------------------------------------------------------
(* One batch of records of one resource, among them records that break the *)
(* contract of the current table, handed over one after the other; the     *)
(* durable table may reject a write.                                       *)

\* An attribute whose type tag the deserializer does not know.
Unsupported == [XX |-> "?"]

Null == [NULL |-> TRUE]

WithOwner(image, v) ==
  DictSet(image, "configuration",
          [M |-> DictSet(image.configuration.M, "owner", v)])

\* NULL at the top of the image and inside its configuration.
NullImages ==
  { WithOwner(DictSet(Image("R1", 2, <<"b", 1>>), "Tags", Null), Null) }

FaultEvents ==
       {Record("INSERT", Image("R1", 1, <<"a", 1>>), EmptyDict),
        Record("MODIFY", Image("R1", 2, <<"b", 1>>), EmptyDict),
        Record("REMOVE", Image("R1", 2, <<"b", 1>>), TtlService)}
  \cup {Record(n, DictDel(Image("R1", 2, <<"b", 1>>), "ttl"), TtlService) :
          n \in {"INSERT", "MODIFY", "REMOVE"}}
  \cup {Record("INSERT", DictSet(Image("R1", 2, <<"b", 1>>), "Tags", Unsupported), EmptyDict),
        Record("MODIFY", WithOwner(Image("R1", 2, <<"b", 1>>), Unsupported), EmptyDict),
        Record("REMOVE", WithOwner(Image("R1", 2, <<"b", 1>>), Unsupported), TtlService)}
  \cup {Record(n, DictDel(Image("R1", 2, <<"b", 1>>), "eventTime"), TtlService) :
          n \in {"MODIFY", "REMOVE"}}
  \cup {Record(n, i, TtlService) : n \in {"INSERT", "MODIFY", "REMOVE"}, i \in NullImages}

\* save() on a table that rejects the write raises, and nothing is written.
Attempt(out, up) ==
  IF out.saves # <<>> /\ ~up
  THEN Outcome("StoreError", <<>>, out.warnings, out.queries, out.diffs, out.items)
  ELSE out

\* The errors that end one record only; the batch goes on with the next.
LocalErrors == {"KeyError", "TypeError"}

Aborted == \E i \in 1..Len(batch) : batch[i].err \notin LocalErrors \cup {"none"}

\* The call on the next record e of the batch; up: the table takes writes.
Handle(e, up) ==
  /\ last = Idle
  /\ \A w \in Workers : workers[w] = Waiting
  /\ nEvents < MaxEvents
  /\ ~Aborted
  /\ ~up => process_dynamodb_record(e, store, clock).saves # <<>>
  /\ LET out == Attempt(process_dynamodb_record(e, store, clock), up)
     IN  /\ store' = Saved(store, out.saves)
         /\ clock' = Tick(clock, out.saves)
         /\ last' = [event |-> e, pre |-> store, err |-> out.err, saves |-> out.saves,
                     warnings |-> out.warnings, queries |-> out.queries,
                     diffs |-> out.diffs, items |-> out.items]
         /\ batch' = Append(batch, [record |-> e, up |-> up, err |-> out.err])
  /\ nEvents' = nEvents + 1
  /\ UNCHANGED <<warned, delivered, workers>>

NextFaults == (\E e \in FaultEvents, up \in BOOLEAN : Handle(e, up)) \/ Return

SpecFaults == Init /\ [][NextFaults]_vars

----------------------------------------------------------------------------
(* What the claims speak of *)

Called(name) == last.event.eventName = name

WellFormed(image) ==
  /\ {"arn", "eventTime", "ttl", "configuration"} \subseteq DOMAIN image
  /\ \A f \in DOMAIN image : Decodable(image[f])

\* The durable revision a well-formed image stands for: ttl dropped, every
\* typed value replaced by the plain value it carries.
RevisionOf(image) ==
  [arn |-> [str |-> image.arn.S],
   eventTime |-> [str |-> image.eventTime.S],
   configuration |->
     [map |-> [owner |-> [str |-> image.configuration.M.owner.S],
               observed |-> [int |-> image.configuration.M.observed.N[1]]]]]

\* The revisions of resource arn held by st at or before time t.
AtOrBefore(st, arn, t) == {r \in st : r.arn.str = arn /\ r.eventTime.str <= t}

IsLatest(r, st, arn, t) ==
  /\ r \in AtOrBefore(st, arn, t)
  /\ \A q \in AtOrBefore(st, arn, t) : q.eventTime.str <= r.eventTime.str

\* C1: an INSERT with a well-formed NewImage makes exactly one save, of the
\* normalized image without ttl, whatever the durable table holds; it neither
\* queries the table nor calls the diff function.
C1_InsertSavesOnce ==
  (Called("INSERT") /\ WellFormed(last.event.image)) =>
     /\ last.err = "none"
     /\ last.saves = <<RevisionOf(last.event.image)>>
     /\ last.queries = 0
     /\ last.diffs = 0

C1_Witness ==
  /\ Called("INSERT") /\ WellFormed(last.event.image)
  /\ Len(last.saves) = 1
  /\ \E r \in last.pre : r.arn.str = last.event.Keys
  /\ \E r \in last.pre : r.arn.str # last.event.Keys

\* C2: a MODIFY whose resource has a latest revision at or before the
\* candidate's eventTime saves nothing when diff_func reports no difference
\* between that revision and the candidate, and saves exactly the candidate
\* when it reports one.
C2_ModifyFollowsDiff ==
  (/\ Called("MODIFY") /\ WellFormed(last.event.image)
   /\ AtOrBefore(last.pre, last.event.Keys, last.event.image.eventTime.S) # {}) =>
     LET candidate == RevisionOf(last.event.image)
     IN  \A latest \in last.pre :
           IsLatest(latest, last.pre, last.event.Keys, last.event.image.eventTime.S) =>
             /\ last.err = "none"
             /\ diff_func(latest, candidate) => last.saves = <<candidate>>
             /\ ~diff_func(latest, candidate) => last.saves = <<>>

C2_Witness ==
  /\ Called("MODIFY") /\ WellFormed(last.event.image)
  /\ last.diffs = 1
  /\ last.saves = <<>>
  /\ \E latest \in last.pre :
       /\ IsLatest(latest, last.pre, last.event.Keys, last.event.image.eventTime.S)
       /\ latest.configuration # RevisionOf(last.event.image).configuration

\* C3: a MODIFY for which the durable table holds no revision of the same
\* resource at or before the candidate's eventTime saves nothing, logs exactly
\* one warning and ends without an error.
C3_ModifyWithoutPrior ==
  (/\ Called("MODIFY") /\ WellFormed(last.event.image)
   /\ AtOrBefore(last.pre, last.event.Keys, last.event.image.eventTime.S) = {}) =>
     /\ last.saves = <<>>
     /\ last.warnings = 1
     /\ last.err = "none"
     /\ store = last.pre

C3_Witness ==
  /\ Called("MODIFY") /\ WellFormed(last.event.image)
  /\ last.warnings = 1
  /\ \E r \in last.pre :
       r.arn.str = last.event.Keys /\ r.eventTime.str > last.event.image.eventTime.S
  /\ \E r \in last.pre :
       r.arn.str # last.event.Keys /\ r.eventTime.str <= last.event.image.eventTime.S

\* C4: a REMOVE made by the DynamoDB TTL service saves exactly one item, a
\* tombstone: its configuration is the empty map and its other fields are
\* those of OldImage without ttl and eventTime.
C4_TtlRemoveSavesTombstone ==
  (/\ Called("REMOVE") /\ WellFormed(last.event.image)
   /\ last.event.userIdentity = TtlService) =>
     /\ last.err = "none"
     /\ Len(last.saves) = 1
     /\ last.saves[1].configuration = [map |-> EmptyDict]
     /\ DictDel(DictDel(last.saves[1], "eventTime"), "configuration")
          = [arn |-> [str |-> last.event.image.arn.S]]

C4_Witness ==
  /\ Called("REMOVE") /\ last.event.userIdentity = TtlService
  /\ Len(last.saves) = 1
  /\ last.saves[1] \in store
  /\ \E r \in last.pre : r.arn.str = last.event.Keys /\ r.configuration.map # EmptyDict

\* C5: a REMOVE that is not made by the DynamoDB TTL service saves nothing,
\* raises nothing and leaves the durable table as it was, also when its
\* OldImage has no ttl.
C5_OtherRemoveIgnored ==
  (Called("REMOVE") /\ last.event.userIdentity # TtlService) =>
     /\ last.saves = <<>>
     /\ last.err = "none"
     /\ store = last.pre

C5_Witness ==
  /\ Called("REMOVE")
  /\ last.event.userIdentity = [type |-> "Service", principalId |-> "lambda.amazonaws.com"]
  /\ "ttl" \notin DOMAIN last.event.image
  /\ last.saves = <<>> /\ last.err = "none"
  /\ last.pre # {}

\* C6: the durable table is append-only: no call removes a stored revision
\* or replaces it by different content, also when an INSERT or MODIFY carries
\* the arn and eventTime of a stored revision.
C6_AppendOnly == \A r \in last.pre : r \in store

\* C9: the revision a MODIFY is compared against is a stored revision of the
\* same resource, at or before the candidate's eventTime, and no stored
\* revision of that resource at or before that time is later than it.
C9_ResolvesLatestAtOrBefore ==
  (Called("MODIFY") /\ last.queries = 1) =>
     LET t == last.event.image.eventTime.S
     IN  /\ Len(last.items) <= 1
         /\ last.items = <<>> <=> AtOrBefore(last.pre, last.event.Keys, t) = {}
         /\ last.items # <<>> =>
              /\ last.items[1] \in last.pre
              /\ last.items[1].arn.str = last.event.Keys
              /\ last.items[1].eventTime.str <= t
              /\ \A r \in last.pre :
                   (r.arn.str = last.event.Keys /\ r.eventTime.str <= t)
                     => r.eventTime.str <= last.items[1].eventTime.str
         /\ last.diffs = 1 <=> last.items # <<>>

C9_Witness ==
  /\ Called("MODIFY") /\ last.items # <<>>
  /\ \E r \in last.pre :
       /\ r.arn.str = last.event.Keys
       /\ r.eventTime.str < last.items[1].eventTime.str
  /\ last.items[1].eventTime.str < last.event.image.eventTime.S

\* The stored revisions of one resource that follow each other in eventTime order.
Adjacent(r, q) ==
  /\ r \in store /\ q \in store
  /\ r.arn.str = q.arn.str
  /\ r.eventTime.str < q.eventTime.str
  /\ ~\E m \in store : /\ m.arn.str = r.arn.str
                       /\ r.eventTime.str < m.eventTime.str
                       /\ m.eventTime.str < q.eventTime.str

Inserts == {e \in delivered : e.eventName = "INSERT"}

Modifies == {e \in delivered : e.eventName = "MODIFY"}

TimeOf(e) == e.image.eventTime.S

\* The delivered records are one INSERT and, each at a later eventTime of
\* its own, the MODIFYs that followed it on the current table.
OneHistory ==
  /\ Cardinality(Inserts) = 1
  /\ \A i \in Inserts, m \in Modifies : TimeOf(i) < TimeOf(m)
  /\ \A m, n \in Modifies : TimeOf(m) = TimeOf(n) => m = n

\* The delivered record whose content preceded that of m in eventTime order.
Precedes(p, m) ==
  /\ p \in delivered
  /\ TimeOf(p) < TimeOf(m)
  /\ \A q \in delivered : TimeOf(q) < TimeOf(m) => TimeOf(q) <= TimeOf(p)

\* C7: no real change is dropped without a trace: once the INSERT and the
\* MODIFYs of one resource have all been processed, in whatever order they
\* were delivered and no warning having been logged, every MODIFY whose
\* candidate differs outside the ephemeral paths from the content before it
\* in eventTime order is held by the durable table.
C7_NoChangeDropped ==
  (last = Idle /\ OneHistory /\ ~warned) =>
     \A m \in Modifies, p \in delivered :
        (Precedes(p, m) /\ diff_func(RevisionOf(p.image), RevisionOf(m.image)))
          => RevisionOf(m.image) \in store

\* C8: out-of-order delivery writes no duplicate: after the INSERT and any
\* MODIFYs of one resource, each at an eventTime of its own and processed one
\* after the other in any order, no two stored revisions that follow each
\* other in eventTime order are equal outside the ephemeral paths.
C8_NoAdjacentDuplicates ==
  OneHistory =>
     \A r, q \in store : Adjacent(r, q) => diff_func(r, q)

\* C10: nothing holds back a save once an invocation has decided on it: an
\* invocation that is about to save can always take that step, whatever the
\* other invocation has read or written meanwhile.
C10_SaveNeverHeldBack ==
  \A w \in Workers : workers[w].pc = "save" => ENABLED SaveStep(w)

\* Two MODIFYs of one resource both read the same latest revision before
\* either saved, both saved, and the table holds their two revisions, equal
\* outside the ephemeral paths.
C10_Witness ==
  \E w, v \in Workers :
    /\ workers[w].pc = "saved" /\ workers[v].pc = "saved"
    /\ workers[w].event.eventName = "MODIFY" /\ workers[v].event.eventName = "MODIFY"
    /\ workers[w].event.Keys = workers[v].event.Keys
    /\ workers[w].items # <<>> /\ workers[w].items = workers[v].items
    /\ workers[w].seen = workers[v].seen
    /\ workers[w].item \notin workers[w].seen /\ workers[v].item \notin workers[w].seen
    /\ KeyOf(workers[w].item) # KeyOf(workers[v].item)
    /\ workers[w].item \in store /\ workers[v].item \in store
    /\ ~diff_func(workers[w].item, workers[v].item)

\* C12: the tombstone of a REMOVE made by the TTL service does not carry the
\* eventTime of the deleted record: its eventTime is the one the durable model
\* assigned at the save, and differs from that of OldImage.
C12_TombstoneHasOwnTime ==
  (/\ Called("REMOVE") /\ WellFormed(last.event.image)
   /\ last.event.userIdentity = TtlService) =>
     /\ Len(last.saves) = 1
     /\ last.saves[1].eventTime.str # last.event.image.eventTime.S
     /\ last.saves[1].eventTime.str + 1 = clock
     /\ \A r \in last.pre : r \in store

C12_Witness ==
  /\ Called("REMOVE") /\ last.event.userIdentity = TtlService
  /\ Len(last.saves) = 1
  /\ \E r \in last.pre :
       /\ KeyOf(r) = <<last.event.Keys, last.event.image.eventTime.S>>
       /\ r \in store
  /\ last.saves[1] \in store

\* C14: no revision held by the durable table, ordinary or tombstone, has a
\* ttl field.
C14_NoTtlStored == \A r \in store : "ttl" \notin DOMAIN r

C14_Witness ==
  /\ \E r \in store : r.configuration.map = EmptyDict
  /\ \E r \in store : r.configuration.map # EmptyDict
  /\ Called("MODIFY") /\ last.saves # <<>>
  /\ "ttl" \in DOMAIN last.event.image

\* C17: a second delivery of an INSERT or MODIFY right after the first one
\* leaves the durable table as the first one left it.
C17_RedeliveryKeepsStore ==
  ((Called("INSERT") \/ Called("MODIFY")) /\ WellFormed(last.event.image)) =>
     Saved(store, process_dynamodb_record(last.event, store, clock).saves) = store

\* The second delivery has been made: the record's own revision was stored
\* when the call began, and the call left the durable table unchanged.
C17_Witness ==
  /\ Called("MODIFY") /\ WellFormed(last.event.image)
  /\ RevisionOf(last.event.image) \in last.pre
  /\ last.items = <<RevisionOf(last.event.image)>>
  /\ Cardinality(last.pre) > 1
  /\ store = last.pre

OfResource(st, arn) == {r \in st : r.arn.str = arn}

\* C18: a call on a record whose Keys arn is R leaves the stored revisions of
\* every other resource as they were, and what a MODIFY for R saves is what
\* it would save if the durable table held the revisions of R only.
C18_OtherResourcesUntouched ==
  ~Called("NONE") =>
     /\ \A a \in ARNS \ {last.event.Keys} : OfResource(store, a) = OfResource(last.pre, a)
     /\ (Called("MODIFY") /\ WellFormed(last.event.image)) =>
          last.saves =
            process_dynamodb_record(last.event, OfResource(last.pre, last.event.Keys),
                                    clock).saves

C18_Witness ==
  /\ Called("MODIFY") /\ last.saves # <<>>
  /\ \E r \in last.pre :
       /\ r.arn.str # last.event.Keys
       /\ r.eventTime.str <= last.event.image.eventTime.S
       /\ last.items[1].eventTime.str < r.eventTime.str
       /\ ~diff_func(r, last.saves[1])
       /\ r \in store

OwnerOf(e) == e.image.configuration.M.owner.S

Inserted(t, c) == Record("INSERT", Image("R1", t, c), EmptyDict)

Modified(t, c) == Record("MODIFY", Image("R1", t, c), EmptyDict)

\* C15: on an empty durable table, an INSERT of R1 at T1 stores its image
\* without ttl at T1; a MODIFY that follows at T2 > T1 with the same owner and
\* another ttl resolves the revision of T1 and saves nothing; a MODIFY that
\* follows at T3 > T2 with another owner makes one save, and the table then
\* holds exactly the revisions of T1 and T3.
C15_EndToEnd ==
  ~warned =>
    \A i \in Inserts :
      LET first == RevisionOf(i.image)
      IN  /\ (nEvents = 1 /\ delivered = {i}) =>
               (last = Idle \/ last.saves = <<first>>) /\ store = {first}
          /\ \A m \in Modifies :
               (/\ TimeOf(i) < TimeOf(m) /\ OwnerOf(m) = OwnerOf(i)
                /\ last.event = m) =>
                  /\ (nEvents = 2 /\ delivered = {i, m}) =>
                       /\ last.items = <<first>>
                       /\ last.saves = <<>>
                       /\ store = {first}
          /\ \A m, n \in Modifies :
               (/\ TimeOf(i) < TimeOf(m) /\ OwnerOf(m) = OwnerOf(i)
                /\ TimeOf(m) < TimeOf(n) /\ OwnerOf(n) # OwnerOf(m)
                /\ last.event = n) =>
                  /\ (nEvents = 3 /\ delivered = {i, m, n}) =>
                       /\ last.pre = {first}
                       /\ last.items = <<first>>
                       /\ last.saves = <<RevisionOf(n.image)>>
                       /\ store = {first, RevisionOf(n.image)}

C15_Witness ==
  /\ nEvents = 3 /\ ~warned
  /\ last.event = Modified(3, <<"b", 1>>)
  /\ delivered = {Inserted(1, <<"a", 1>>), Modified(2, <<"a", 2>>), Modified(3, <<"b", 1>>)}
  /\ Inserted(1, <<"a", 1>>).image.ttl = [N |-> <<999, 0>>]
  /\ Modified(2, <<"a", 2>>).image.ttl = [N |-> <<1000, 0>>]
  /\ Cardinality(store) = 2

----------------------------------------------------------------------------
(* Error paths, NULL attributes and batches, under SpecFaults *)

\* The records the core acts on: INSERT, MODIFY and the TTL service's REMOVE.
Tracked(e) ==
  \/ e.eventName \in {"INSERT", "MODIFY"}
  \/ e.eventName = "REMOVE" /\ is_ttl_delete(e)

AllDecodable(image) == \A item \in DOMAIN image : Decodable(image[item])

\* C11: a call that ends in an error leaves the durable table as it was; and
\* the calls that end in an error are those on a tracked record whose image
\* has no ttl (KeyError) or an attribute that cannot be decoded (TypeError),
\* on a tracked REMOVE whose image has no eventTime (KeyError), and those
\* whose save the table rejects (StoreError).
C11_NoPartialWrites ==
  (~Called("NONE") /\ batch # <<>>) =>
    LET e == last.event
        image == e.image
    IN  /\ last.err # "none" => (last.saves = <<>> /\ store = last.pre)
        /\ (Tracked(e) /\ "ttl" \notin DOMAIN image) => last.err = "KeyError"
        /\ (Tracked(e) /\ "ttl" \in DOMAIN image /\ ~AllDecodable(image)) =>
              last.err = "TypeError"
        /\ (Called("REMOVE") /\ Tracked(e) /\ "ttl" \in DOMAIN image
              /\ AllDecodable(image) /\ "eventTime" \notin DOMAIN image) =>
              last.err = "KeyError"
        /\ ~batch[Len(batch)].up => last.err = "StoreError"

C11_Witness ==
  /\ Called("REMOVE") /\ is_ttl_delete(last.event)
  /\ "ttl" \in DOMAIN last.event.image
  /\ "eventTime" \notin DOMAIN last.event.image
  /\ last.err = "KeyError"
  /\ last.pre # {}
  /\ store = last.pre

RECURSIVE NullsAsEmptyMaps(_, _)
\* plain holds the empty map wherever typed holds NULL.
NullsAsEmptyMaps(typed, plain) ==
  CASE TagOf(typed) = "NULL" -> plain = [map |-> EmptyDict]
    [] TagOf(typed) = "M" ->
         /\ "map" \in DOMAIN plain
         /\ \A k \in DOMAIN typed.M \cap DOMAIN plain.map :
              NullsAsEmptyMaps(typed.M[k], plain.map[k])
    [] OTHER -> TRUE

\* C13: the item an INSERT, a MODIFY or a tracked REMOVE saves holds the
\* empty map wherever the image holds NULL, at every depth.
C13_NullsSavedAsEmptyMaps ==
  (~Called("NONE") /\ last.saves # <<>>) =>
    \A item \in DOMAIN last.event.image \cap DOMAIN last.saves[1] :
      NullsAsEmptyMaps(last.event.image[item], last.saves[1][item])

Healthy(entry) == entry.err \notin LocalErrors

RECURSIVE RunBatch(_, _, _)
\* The table after the entries were handled one after the other.
RunBatch(entries, st, now) ==
  IF entries = <<>> THEN st
  ELSE LET out == Attempt(process_dynamodb_record(entries[1].record, st, now), entries[1].up)
       IN  RunBatch(Tail(entries), Saved(st, out.saves), Tick(now, out.saves))

====
